---------------------------- MODULE Spec2Model ----------------------------
(***************************************************************************)
(* homebridge-mitsubishi-comfort: the Kumo Cloud token session (KumoAPI),  *)
(* the platform's health-driven polling controller (KumoV3Platform) and    *)
(* the per-device state store (KumoThermostatAccessory).                   *)
(*                                                                         *)
(* Asynchronous methods are split at their awaits: one action runs a       *)
(* handler from the moment it is entered (or resumed) up to its next       *)
(* await, which is what the single-threaded event loop executes            *)
(* atomically.                                                             *)
(***************************************************************************)
EXTENDS Integers, Sequences, FiniteSets, Bags, TLC

(***************************************************************************)
(* Bounds of the model                                                     *)
(***************************************************************************)
NumCallers == 2

MaxTicks == 2

MaxInFlight == 2

MaxCommands == 1

(***************************************************************************)
(* Values                                                                  *)
(***************************************************************************)
None == "none"

\* null for a stored promise / operation
NoOp == <<0, "none">>

\* null for a timer handle
NoTimer == -1

\* a boolean result as stored next to None
B(b) == IF b THEN "true" ELSE "false"

Callers == 1..NumCallers

\* JavaScript null and undefined in a numeric field
Null == -1

Undefined == -2

\* a || b of JavaScript for a numeric a
Or(a, b) == IF a \in {Null, Undefined, 0} THEN b ELSE a

Sites == {"S1", "S2"}

Devices == {"D1", "D2", "D3"}

\* accessory.context.device.siteId
getSiteId == [d \in Devices |-> IF d = "D3" THEN "S2" ELSE "S1"]

\* settings.ts: 15 minutes, in milliseconds
TOKEN_REFRESH_INTERVAL == 15 * 60 * 1000

\* the "5 minutes before expiry" margin of ensureAuthenticated and scheduleTokenRefresh
RefreshMargin == 5 * 60 * 1000

\* granularity of the model clock (Date.now())
TimeStep == 5 * 60 * 1000

\* An authentication operation is one run of login() or refreshAccessToken().
\* It is identified by who started it and why.
EnsureOps == {<<c, "ensure">> : c \in Callers}

UnauthOps == {<<c, "unauth">> : c \in Callers}

TimerOp == <<0, "timer">>

StartupOp == <<0, "startup">>

OpIds == EnsureOps \cup UnauthOps \cup {TimerOp, StartupOp}

VARIABLES
  \* ---- KumoAPI ----
  accessToken,        \* an access token is held
  refreshToken,       \* a refresh token is held
  tokenExpiresAt,     \* ms
  refreshTimer,       \* deadline (ms) of the live refresh timeout, or NoTimer
  refreshInProgress,  \* NoOp, or the operation whose promise is stored
  now,                \* Date.now()
  opPhase,            \* per operation: "none", "refresh" (awaiting POST /refresh), "login" (awaiting POST /login)
  opOutcome,          \* per operation: the boolean it last resolved to (None before)
  pc,                 \* per caller of makeAuthenticatedRequest: where it is suspended
  joined,             \* per caller: the operation whose promise its ensureAuthenticated call awaited
  authResult,         \* per caller: what its ensureAuthenticated call returned
  \* ---- KumoV3Platform ----
  kumoConfig,         \* disablePolling, pollInterval, degradedPollInterval
  isStreamingHealthy,
  isDegradedMode,
  sitePollers,        \* per site: the interval (ms) of the timer recorded for it, or NoTimer
  liveTimers,         \* per site: the bag of intervals of the setInterval timers that are live
  siteAccessories,    \* per site: the handlers a pull is distributed to
  accessoryHandlers,  \* the devices that have a handler (and a streaming callback)
  discovery,          \* where discoverDevices is: "constructed", "streaming", "done", "aborted"
  inflight,           \* bag of pulls (pollSite) awaiting getZones
  isShutDown,         \* the host's shutdown event has been handled (cleanup ran)
  \* ---- KumoThermostatAccessory ----
  currentStatus,      \* per device: the stored DeviceStatus, or NoStatus
  hasHumiditySensor,  \* per device
  cmds,               \* bag of commands awaiting sendCommand
  commandsSent,       \* number of commands issued so far
  statusFetches,      \* bag of devices whose getter awaits getDeviceStatus
  event,              \* the input handled by the last step
  \* ---- KumoAPI: conditional pull ----
  siteEtags,          \* per site: the stored ETag, or None
  \* ---- KumoAPI: streaming ----
  reconnectAttempts,  \* disconnects counted since the last connect
  deviceUpdateCallbacks, \* the devices with a registered update callback
  socketConnected,    \* socket?.connected
  subscribed          \* the devices a 'subscribe' was emitted for on this connection

authVars == <<accessToken, refreshToken, tokenExpiresAt, refreshTimer, refreshInProgress,
              now, opPhase, opOutcome, pc, joined, authResult>>

platformVars == <<kumoConfig, isStreamingHealthy, isDegradedMode, sitePollers, liveTimers,
                  siteAccessories, accessoryHandlers, discovery, inflight, isShutDown>>

accessoryVars == <<currentStatus, hasHumiditySensor, cmds, commandsSent, statusFetches>>

subscriptionVars == <<deviceUpdateCallbacks, socketConnected, subscribed>>

syncVars == <<platformVars, accessoryVars, event, siteEtags, reconnectAttempts, subscriptionVars>>

vars == <<authVars, syncVars>>

(***************************************************************************)
(* KumoAPI: construction                                                   *)
(***************************************************************************)
InitAuth ==
  /\ accessToken = FALSE
  /\ refreshToken = FALSE
  /\ tokenExpiresAt = 0
  /\ refreshTimer = NoTimer
  /\ refreshInProgress = NoOp
  /\ now = 0
  /\ opPhase = [o \in OpIds |-> "none"]
  /\ opOutcome = [o \in OpIds |-> None]
  /\ pc = [c \in Callers |-> "idle"]
  /\ joined = [c \in Callers |-> NoOp]
  /\ authResult = [c \in Callers |-> None]

(***************************************************************************)
(* KumoAPI: token management                                               *)
(***************************************************************************)
\* ensureAuthenticated: "no token or token is about to expire"
tokenNeedsRefresh_NoMargin == (~accessToken) \/ now >= tokenExpiresAt

tokenNeedsRefresh ==
  (~accessToken) \/ now >= tokenExpiresAt - RefreshMargin

\* ensureAuthenticated: "a refresh is already in progress"
refreshLockHeld_NoLock == FALSE

refreshLockHeld == refreshInProgress # NoOp

\* First network call of refreshAccessToken(): POST /refresh when a refresh
\* token is held, otherwise it falls through to login().  The body of the
\* operation started by ensureAuthenticated makes the same choice.
refreshAccessToken == IF refreshToken THEN "refresh" ELSE "login"

\* scheduleTokenRefresh(): clear the previous timeout, arm a new one
scheduleTokenRefresh == now + (TOKEN_REFRESH_INTERVAL - RefreshMargin)

\* What happens when operation o ends with result r: the promise of an
\* operation started by ensureAuthenticated releases the lock (finally) and
\* resumes every caller awaiting it; the 401 handler continues with the retry
\* or gives up; the timer callback and the platform's login just end.
lockAfterFinally_Kept == refreshInProgress

lockAfterFinally == NoOp

Resolve(o, r) ==
  /\ opOutcome' = [opOutcome EXCEPT ![o] = B(r)]
  /\ IF o \in EnsureOps
       THEN /\ refreshInProgress' = lockAfterFinally
            /\ pc' = [c \in Callers |->
                        IF pc[c] = "await" /\ joined[c] = o
                          THEN (IF r THEN "fetch" ELSE "done")
                          ELSE pc[c]]
            /\ authResult' = [c \in Callers |->
                        IF pc[c] = "await" /\ joined[c] = o THEN B(r) ELSE authResult[c]]
       ELSE /\ UNCHANGED <<refreshInProgress, authResult>>
            /\ IF o \in UnauthOps
                 THEN pc' = [pc EXCEPT ![o[1]] = IF r THEN "retry" ELSE "done"]
                 ELSE UNCHANGED pc

\* login() called directly by the platform's discoverDevices
login ==
  /\ UNCHANGED <<platformVars, accessoryVars, siteEtags, reconnectAttempts, subscriptionVars>>
  /\ event' = [kind |-> "auth"]
  /\ opPhase[StartupOp] = "none"
  /\ opOutcome[StartupOp] = None
  /\ opPhase' = [opPhase EXCEPT ![StartupOp] = "login"]
  /\ UNCHANGED <<accessToken, refreshToken, tokenExpiresAt, refreshTimer, refreshInProgress,
                 now, opOutcome, pc, joined, authResult>>

\* makeAuthenticatedRequest entered by caller c: it runs ensureAuthenticated
\* up to its first await
ensureAuthenticated(c) ==
  /\ UNCHANGED <<platformVars, accessoryVars, siteEtags, reconnectAttempts, subscriptionVars>>
  /\ event' = [kind |-> "auth"]
  /\ pc[c] = "idle"
  /\ IF ~tokenNeedsRefresh
       THEN /\ pc' = [pc EXCEPT ![c] = "fetch"]
            /\ authResult' = [authResult EXCEPT ![c] = B(TRUE)]
            /\ UNCHANGED <<refreshInProgress, opPhase, joined>>
       ELSE IF refreshLockHeld
         THEN /\ pc' = [pc EXCEPT ![c] = "await"]
              /\ joined' = [joined EXCEPT ![c] = refreshInProgress]
              /\ UNCHANGED <<refreshInProgress, opPhase, authResult>>
         ELSE /\ refreshInProgress' = <<c, "ensure">>
              /\ opPhase' = [opPhase EXCEPT ![<<c, "ensure">>] = refreshAccessToken]
              /\ pc' = [pc EXCEPT ![c] = "await"]
              /\ joined' = [joined EXCEPT ![c] = <<c, "ensure">>]
              /\ UNCHANGED authResult
  /\ UNCHANGED <<accessToken, refreshToken, tokenExpiresAt, refreshTimer, now, opOutcome>>

\* refreshAccessToken: "Token refresh failed, attempting full login" and the
\* catch block: what the operation awaits next
afterRefreshFailure_NoLogin == "none"

afterRefreshFailure == "login"

\* the answer to POST /refresh reaches refreshAccessToken of operation o
RefreshResponse(o, ok) ==
  /\ UNCHANGED <<platformVars, accessoryVars, siteEtags, reconnectAttempts, subscriptionVars>>
  /\ event' = [kind |-> "auth"]
  /\ opPhase[o] = "refresh"
  /\ IF ok
       THEN /\ accessToken' = TRUE
            /\ refreshToken' = TRUE
            /\ tokenExpiresAt' = now + TOKEN_REFRESH_INTERVAL
            /\ refreshTimer' = scheduleTokenRefresh
            /\ opPhase' = [opPhase EXCEPT ![o] = "none"]
            /\ Resolve(o, TRUE)
       ELSE \* non-OK status or exception: "attempting full login"
            /\ opPhase' = [opPhase EXCEPT ![o] = afterRefreshFailure]
            /\ UNCHANGED <<accessToken, refreshToken, tokenExpiresAt, refreshTimer,
                           refreshInProgress, opOutcome, pc, authResult>>
  /\ UNCHANGED <<now, joined>>

\* the answer to POST /login reaches login() of operation o
LoginResponse(o, ok) ==
  /\ UNCHANGED <<platformVars, accessoryVars, siteEtags, reconnectAttempts, subscriptionVars>>
  /\ event' = [kind |-> "auth"]
  /\ opPhase[o] = "login"
  /\ opPhase' = [opPhase EXCEPT ![o] = "none"]
  /\ IF ok
       THEN /\ accessToken' = TRUE
            /\ refreshToken' = TRUE
            /\ tokenExpiresAt' = now + TOKEN_REFRESH_INTERVAL
            /\ refreshTimer' = scheduleTokenRefresh
       ELSE UNCHANGED <<accessToken, refreshToken, tokenExpiresAt, refreshTimer>>
  /\ Resolve(o, ok)
  /\ UNCHANGED <<now, joined>>

\* what the last step records of an answer: the status when it is not OK
failureSeen(kind, status) ==
  IF status = 200 THEN [kind |-> "auth"] ELSE [kind |-> kind, status |-> status]

\* makeAuthenticatedRequest: "if (response.status === 401)"
isUnauthorized_AnyFailure(status) == status # 200

isUnauthorized(status) == status = 401

\* the answer to the request itself reaches makeAuthenticatedRequest of c;
\* a 401 makes it call refreshAccessToken() directly
FetchResponse(c, status) ==
  /\ UNCHANGED <<platformVars, accessoryVars, siteEtags, reconnectAttempts, subscriptionVars>>
  /\ event' = failureSeen("response", status)
  /\ pc[c] = "fetch"
  /\ IF isUnauthorized(status)
       THEN /\ pc' = [pc EXCEPT ![c] = "unauth"]
            /\ opPhase' = [opPhase EXCEPT ![<<c, "unauth">>] = refreshAccessToken]
       ELSE /\ pc' = [pc EXCEPT ![c] = "done"]
            /\ UNCHANGED opPhase
  /\ UNCHANGED <<accessToken, refreshToken, tokenExpiresAt, refreshTimer, refreshInProgress,
                 now, opOutcome, joined, authResult>>

\* the answer to the retried request: data when OK, null otherwise
RetryResponse(c, status) ==
  /\ UNCHANGED <<platformVars, accessoryVars, siteEtags, reconnectAttempts, subscriptionVars>>
  /\ event' = failureSeen("retryResponse", status)
  /\ pc[c] = "retry"
  /\ pc' = [pc EXCEPT ![c] = "done"]
  /\ UNCHANGED <<accessToken, refreshToken, tokenExpiresAt, refreshTimer, refreshInProgress,
                 now, opPhase, opOutcome, joined, authResult>>

\* the timeout armed by scheduleTokenRefresh fires: refreshAccessToken()
RefreshTimerFires ==
  /\ UNCHANGED <<platformVars, accessoryVars, siteEtags, reconnectAttempts, subscriptionVars>>
  /\ event' = [kind |-> "auth"]
  /\ refreshTimer # NoTimer
  /\ now >= refreshTimer
  /\ opPhase[TimerOp] = "none"
  /\ refreshTimer' = NoTimer
  /\ opPhase' = [opPhase EXCEPT ![TimerOp] = refreshAccessToken]
  /\ UNCHANGED <<accessToken, refreshToken, tokenExpiresAt, refreshInProgress,
                 now, opOutcome, pc, joined, authResult>>

\* time passes
ClockAdvance ==
  /\ UNCHANGED <<platformVars, accessoryVars, siteEtags, reconnectAttempts, subscriptionVars>>
  /\ event' = [kind |-> "auth"]
  /\ now < MaxTicks * TimeStep
  /\ now' = now + TimeStep
  /\ UNCHANGED <<accessToken, refreshToken, tokenExpiresAt, refreshTimer, refreshInProgress,
                 opPhase, opOutcome, pc, joined, authResult>>

NextAuth ==
  \/ login
  \/ \E c \in Callers : ensureAuthenticated(c)
  \/ \E o \in OpIds, ok \in BOOLEAN : RefreshResponse(o, ok)
  \/ \E o \in OpIds, ok \in BOOLEAN : LoginResponse(o, ok)
  \/ \E c \in Callers, status \in {200, 401, 500} : FetchResponse(c, status)
  \/ \E c \in Callers, status \in {200, 401} : RetryResponse(c, status)
  \/ RefreshTimerFires
  \/ ClockAdvance

(***************************************************************************)
(* KumoV3Platform: configuration and construction                          *)
(***************************************************************************)
\* the configurations the model runs under (intervals in seconds)
Configs ==
  [disablePolling : BOOLEAN, pollInterval : {Undefined, 10}, degradedPollInterval : {Undefined, 5},
   excludeDevices : {{}, {"D2"}, {"D3"}, Devices}]

defaultConfig ==
  [disablePolling |-> FALSE, pollInterval |-> Undefined, degradedPollInterval |-> Undefined,
   excludeDevices |-> {}]

\* (kumoConfig.pollInterval || 30) * 1000
normalPollInterval == Or(kumoConfig.pollInterval, 30) * 1000

\* (kumoConfig.degradedPollInterval || 10) * 1000
degradedPollInterval == Or(kumoConfig.degradedPollInterval, 10) * 1000

\* currentStatus = null
NoStatus == [absent |-> TRUE]

\* the platform's fields after construction, whatever the configuration
InitPlatform ==
  /\ isStreamingHealthy = FALSE
  /\ isDegradedMode = FALSE
  /\ sitePollers = [s \in Sites |-> NoTimer]
  /\ liveTimers = [s \in Sites |-> EmptyBag]
  /\ siteAccessories = [s \in Sites |-> {}]
  /\ accessoryHandlers = {}
  /\ discovery = "constructed"
  /\ inflight = EmptyBag
  /\ isShutDown = FALSE
  /\ currentStatus = [d \in Devices |-> NoStatus]
  /\ hasHumiditySensor = [d \in Devices |-> FALSE]
  /\ cmds = EmptyBag
  /\ commandsSent = 0
  /\ statusFetches = EmptyBag
  /\ event = [kind |-> "init"]

InitSync ==
  /\ kumoConfig \in Configs
  /\ InitPlatform

\* the interval values a user can write in config.json (seconds)
RawIntervals == {Undefined, 0, 1, 4, 5, 10, 60, 61}

RawConfigs ==
  [disablePolling : {FALSE}, pollInterval : RawIntervals, degradedPollInterval : RawIntervals,
   excludeDevices : {{"D3"}}]

\* the constructor's interval validation: true when it does not throw.
\* Only pollInterval is validated; degradedPollInterval is taken as is.
constructorAccepts(config) ==
  config.pollInterval # Undefined => config.pollInterval >= 5

AcceptedConfigs == {config \in RawConfigs : constructorAccepts(config)}

(***************************************************************************)
(* KumoV3Platform: site pollers                                            *)
(***************************************************************************)
\* the sites of the discovered devices
uniqueSites == {getSiteId[d] : d \in accessoryHandlers}

\* pollSite up to its await of getZones, for each site of S: one pull in
\* flight per site.  stale collects the fields overwritten by a command
\* while the pull is in flight, pushed the devices that stored a streaming
\* update while the pull is in flight.
pollSite(S) == SetToBag({[site |-> s, stale |-> {}, pushed |-> {}] : s \in S})

\* the number of pulls in flight for site s
PullsFor(s, bag) ==
  BagCardinality([p \in {q \in DOMAIN bag : q.site = s} |-> bag[p]])

\* clearInterval(timer) / setInterval(..., interval) on the live timers of a site
clearInterval_Noop(timers, handle) == timers

clearInterval(timers, handle) ==
  IF handle = NoTimer THEN timers ELSE timers (-) SetToBag({handle})

setInterval(timers, interval) == timers (+) SetToBag({interval})

\* discoverDevices: "if (!this.kumoConfig.disablePolling)"
startPollersAtDiscovery_Always == TRUE

startPollersAtDiscovery == ~kumoConfig.disablePolling

\* startSitePoller: "if (this.sitePollers.has(siteId)) return"
alreadyPolling_Never(s) == FALSE

alreadyPolling(s) == sitePollers[s] # NoTimer

\* startSitePoller(siteId) for each site of S
startSitePoller(S) ==
  LET starts(s) == /\ s \in S
                   /\ ~alreadyPolling(s)
                   /\ ~(isStreamingHealthy /\ kumoConfig.disablePolling)
      interval == IF isDegradedMode THEN degradedPollInterval ELSE normalPollInterval
  IN  /\ siteAccessories' = [s \in Sites |->
            IF starts(s) THEN {d \in accessoryHandlers : getSiteId[d] = s}
                         ELSE siteAccessories[s]]
      /\ inflight' = inflight (+) pollSite({s \in Sites : starts(s)})
      /\ liveTimers' = [s \in Sites |->
            IF starts(s) THEN setInterval(liveTimers[s], interval) ELSE liveTimers[s]]
      /\ sitePollers' = [s \in Sites |-> IF starts(s) THEN interval ELSE sitePollers[s]]

\* restartAllPollers(intervalMs)
restartAllPollers_NoImmediatePoll(intervalMs) ==
  LET armed(s) == sitePollers[s] # NoTimer
  IN  /\ liveTimers' = [s \in Sites |->
            IF armed(s) THEN setInterval(clearInterval(liveTimers[s], sitePollers[s]), intervalMs)
                        ELSE liveTimers[s]]
      /\ inflight' = inflight
      /\ sitePollers' = [s \in Sites |-> IF armed(s) THEN intervalMs ELSE NoTimer]

restartAllPollers(intervalMs) ==
  LET armed(s) == sitePollers[s] # NoTimer
  IN  /\ liveTimers' = [s \in Sites |->
            IF armed(s) THEN setInterval(clearInterval(liveTimers[s], sitePollers[s]), intervalMs)
                        ELSE liveTimers[s]]
      /\ inflight' = inflight (+) pollSite({s \in Sites : armed(s)})
      /\ sitePollers' = [s \in Sites |-> IF armed(s) THEN intervalMs ELSE NoTimer]

\* stopAllPollers()
stopAllPollers_Rearms ==
  /\ liveTimers' = [s \in Sites |->
        IF s \in uniqueSites THEN setInterval(clearInterval(liveTimers[s], sitePollers[s]),
                                              normalPollInterval)
                             ELSE liveTimers[s]]
  /\ sitePollers' = [s \in Sites |-> IF s \in uniqueSites THEN normalPollInterval ELSE NoTimer]
  /\ UNCHANGED inflight

stopAllPollers ==
  /\ liveTimers' = [s \in Sites |-> clearInterval(liveTimers[s], sitePollers[s])]
  /\ sitePollers' = [s \in Sites |-> NoTimer]
  /\ UNCHANGED inflight

\* enterDegradedMode()
enterDegradedMode ==
  IF isDegradedMode
    THEN UNCHANGED <<isDegradedMode, sitePollers, liveTimers, inflight>>
    ELSE /\ isDegradedMode' = TRUE
         /\ restartAllPollers(degradedPollInterval)

\* exitDegradedMode()
exitDegradedMode_KeepsIntervals ==
  IF ~isDegradedMode
    THEN UNCHANGED <<isDegradedMode, sitePollers, liveTimers, inflight>>
    ELSE /\ isDegradedMode' = FALSE
         /\ UNCHANGED <<sitePollers, liveTimers, inflight>>

exitDegradedMode ==
  IF ~isDegradedMode
    THEN UNCHANGED <<isDegradedMode, sitePollers, liveTimers, inflight>>
    ELSE /\ isDegradedMode' = FALSE
         /\ IF kumoConfig.disablePolling
              THEN stopAllPollers
              ELSE restartAllPollers(normalPollInterval)

\* handleStreamingHealthChange: "const wasHealthy = this.isStreamingHealthy"
wasHealthy_Inverted == ~isStreamingHealthy

wasHealthy == isStreamingHealthy

\* the streaming health callback registered in the constructor; the socket
\* that drives it exists once discoverDevices has called startStreaming
applyStreamingHealth(isHealthy) ==
  /\ isStreamingHealthy' = isHealthy
  /\ IF wasHealthy /\ ~isHealthy
       THEN enterDegradedMode
       ELSE IF ~wasHealthy /\ isHealthy
         THEN exitDegradedMode
         ELSE UNCHANGED <<isDegradedMode, sitePollers, liveTimers, inflight>>
  /\ BagCardinality(inflight') <= MaxInFlight
  /\ UNCHANGED <<isShutDown, kumoConfig, siteAccessories, accessoryHandlers, discovery>>
  /\ UNCHANGED <<authVars, siteEtags, accessoryVars>>

\* the socket is created by startStreaming, called by discoverDevices when a
\* device was discovered
socketExists == discovery \in {"streaming", "done"} /\ accessoryHandlers # {}

\* the callback given to onStreamingHealthChange is invoked with isHealthy
handleStreamingHealthChange(isHealthy) ==
  /\ socketExists
  /\ applyStreamingHealth(isHealthy)
  /\ event' = [kind |-> "health", isHealthy |-> isHealthy,
                mode |-> IF wasHealthy /\ ~isHealthy /\ ~isDegradedMode THEN "entered"
                         ELSE IF ~wasHealthy /\ isHealthy /\ isDegradedMode THEN "exited"
                         ELSE "kept"]
  /\ UNCHANGED <<reconnectAttempts, subscriptionVars>>

(***************************************************************************)
(* KumoAPI: the streaming socket                                           *)
(***************************************************************************)
maxReconnectAttempts == 5

\* the reason socket.io gives for a disconnect asked for by this client
ClientDisconnect == "io client disconnect"

DisconnectReasons == {ClientDisconnect, "transport close"}

\* on('connect'): "this.reconnectAttempts = 0"
attemptsAfterConnect_Kept == reconnectAttempts

attemptsAfterConnect == 0

\* on('disconnect'): "reason !== 'io client disconnect' &&
\* this.reconnectAttempts < this.maxReconnectAttempts"
countsReconnect_NoCap(reason) == reason # ClientDisconnect

countsReconnect(reason) ==
  reason # ClientDisconnect /\ reconnectAttempts < maxReconnectAttempts

\* the health monitor: a connect makes the channel healthy
healthyOnConnect == TRUE

\* the health monitor: a disconnect that was not asked for locally makes the
\* channel unhealthy once the reconnect attempts are used up
unhealthyOnDisconnect(reason) ==
  reason # ClientDisconnect /\ reconnectAttempts >= maxReconnectAttempts

\* the health monitor calls back on a transition only; the platform's
\* isStreamingHealthy is set by nothing else and so equals the monitor's state
healthCallback(fires, isHealthy) ==
  IF fires THEN applyStreamingHealth(isHealthy)
           ELSE UNCHANGED <<authVars, platformVars, accessoryVars, siteEtags>>

\* the deviceSerials that discoverDevices passed to startStreaming, captured
\* by the connect handler: every discovered device, each with a handler
deviceSerials == accessoryHandlers

\* on('connect'): "for (const deviceSerial of deviceSerials) emit('subscribe', deviceSerial)"
subscribedOnConnect == deviceSerials

\* socket.on('connect')
streamConnect ==
  /\ socketExists
  /\ reconnectAttempts' = attemptsAfterConnect
  /\ socketConnected' = TRUE
  /\ subscribed' = subscribedOnConnect
  /\ UNCHANGED deviceUpdateCallbacks
  /\ LET fires == healthyOnConnect /\ ~isStreamingHealthy
     IN  /\ healthCallback(fires, TRUE)
         /\ event' = [kind |-> "connect", fired |-> fires]

\* socket.on('disconnect', reason)
streamDisconnect(reason) ==
  /\ socketExists
  /\ reconnectAttempts' = IF countsReconnect(reason) THEN reconnectAttempts + 1
                                                     ELSE reconnectAttempts
  /\ socketConnected' = FALSE
  /\ subscribed' = {}
  /\ UNCHANGED deviceUpdateCallbacks
  /\ LET fires == unhealthyOnDisconnect(reason) /\ isStreamingHealthy
     IN  /\ healthCallback(fires, FALSE)
         /\ event' = [kind |-> "disconnect", reason |-> reason, fired |-> fires]

\* subscribeToDevice(deviceSerial, callback): the callback is registered;
\* "If already connected, subscribe immediately"
subscribeToDevice(d) ==
  /\ deviceUpdateCallbacks' = deviceUpdateCallbacks \cup {d}
  /\ subscribed' = IF socketConnected THEN subscribed \cup {d} ELSE subscribed
  /\ event' = [kind |-> "subscribe", device |-> d, connected |-> socketConnected]
  /\ UNCHANGED <<authVars, platformVars, accessoryVars, siteEtags, reconnectAttempts,
                 socketConnected>>

\* unsubscribeFromDevice(deviceSerial): the callback is dropped, nothing is emitted
unsubscribeFromDevice(d) ==
  /\ d \in deviceUpdateCallbacks
  /\ deviceUpdateCallbacks' = deviceUpdateCallbacks \ {d}
  /\ event' = [kind |-> "unsubscribe", device |-> d]
  /\ UNCHANGED <<authVars, platformVars, accessoryVars, siteEtags, reconnectAttempts,
                 socketConnected, subscribed>>

\* discoverDevices: "if (this.kumoConfig.excludeDevices?.includes(deviceSerial)) continue"
discoveredDevices_NoneHidden(zones) == zones

discoveredDevices(zones) == zones \ kumoConfig.excludeDevices

\* discoverDevices from login to the await of startStreaming: zones are the
\* active zones of the sites; ok is false when login fails or no site is
\* returned
discoverDevices(zones, ok) ==
  /\ discovery = "constructed"
  /\ IF ok
       THEN /\ accessoryHandlers' = discoveredDevices(zones)
            /\ discovery' = IF discoveredDevices(zones) = {} THEN "done" ELSE "streaming"
       ELSE /\ discovery' = "aborted"
            /\ UNCHANGED accessoryHandlers
  /\ deviceUpdateCallbacks' = deviceUpdateCallbacks \cup accessoryHandlers'
  /\ event' = [kind |-> "discover", ok |-> ok]
  /\ UNCHANGED <<isShutDown, kumoConfig, isStreamingHealthy, isDegradedMode, sitePollers, liveTimers,
                 siteAccessories, inflight>>
  /\ UNCHANGED <<authVars, siteEtags, reconnectAttempts, socketConnected, subscribed, accessoryVars>>

\* discoverDevices after startStreaming: start site-level polling
discoverDevicesStartPollers ==
  /\ discovery = "streaming"
  /\ discovery' = "done"
  /\ IF startPollersAtDiscovery
       THEN startSitePoller(uniqueSites)
       ELSE UNCHANGED <<siteAccessories, inflight, liveTimers, sitePollers>>
  /\ event' = [kind |-> "pollersStarted"]
  /\ UNCHANGED <<isShutDown, kumoConfig, isStreamingHealthy, isDegradedMode, accessoryHandlers>>
  /\ UNCHANGED <<authVars, siteEtags, reconnectAttempts, subscriptionVars, accessoryVars>>

\* startSitePoller(siteId) called once more for the site of a discovered
\* device, after discoverDevices has started the pollers
startSitePollerAgain(s) ==
  /\ discovery = "done"
  /\ ~kumoConfig.disablePolling
  /\ s \in uniqueSites
  /\ startSitePoller({s})
  /\ BagCardinality(inflight') <= MaxInFlight
  /\ event' = [kind |-> "startSitePoller", site |-> s]
  /\ UNCHANGED <<isShutDown, kumoConfig, isStreamingHealthy, isDegradedMode, accessoryHandlers, discovery>>
  /\ UNCHANGED <<authVars, siteEtags, reconnectAttempts, subscriptionVars, accessoryVars>>

\* cleanup: "for (const [siteId, timer] of this.sitePollers) clearInterval(timer)"
\* and "this.sitePollers.clear()"
cleanupPollers_KeepsTimers ==
  /\ liveTimers' = liveTimers
  /\ sitePollers' = [s \in Sites |-> NoTimer]

cleanupPollers ==
  /\ liveTimers' = [s \in Sites |-> clearInterval(liveTimers[s], sitePollers[s])]
  /\ sitePollers' = [s \in Sites |-> NoTimer]

\* cleanup(), the handler of the host's shutdown event, taken outside the
\* await of startStreaming: timers cleared, every handler destroyed
\* (unsubscribed) and dropped from accessoryHandlers, the API destroyed.  The
\* per-site groups in siteAccessories are separate arrays and are kept.
cleanup ==
  /\ discovery # "streaming"
  /\ cleanupPollers
  /\ accessoryHandlers' = {}
  /\ refreshTimer' = NoTimer
  /\ isShutDown' = TRUE
  /\ event' = [kind |-> "cleanup"]
  /\ UNCHANGED <<kumoConfig, isStreamingHealthy, isDegradedMode, siteAccessories, discovery,
                 inflight>>
  /\ UNCHANGED <<accessToken, refreshToken, tokenExpiresAt, refreshInProgress, now, opPhase,
                 opOutcome, pc, joined, authResult>>
  /\ deviceUpdateCallbacks' = deviceUpdateCallbacks \ accessoryHandlers
  /\ socketConnected' = FALSE
  /\ subscribed' = {}
  /\ UNCHANGED <<siteEtags, reconnectAttempts, accessoryVars>>

\* a live interval timer of site s fires: pollSite(s)
PollTimerFires(s) ==
  /\ liveTimers[s] # EmptyBag
  /\ event' = [kind |-> "tick"]
  /\ BagCardinality(inflight) < MaxInFlight
  /\ inflight' = inflight (+) pollSite({s})
  /\ UNCHANGED <<isShutDown, kumoConfig, isStreamingHealthy, isDegradedMode, sitePollers, liveTimers,
                 siteAccessories, accessoryHandlers, discovery>>
  /\ UNCHANGED <<authVars, siteEtags, reconnectAttempts, subscriptionVars, accessoryVars>>

(***************************************************************************)
(* KumoThermostatAccessory: the per-device state store                     *)
(***************************************************************************)
\* zone.adapter values a pull may return for a device
PullAdapters ==
  { [roomTemp |-> 21, operationMode |-> "heat", power |-> 1, spHeat |-> 22, spCool |-> 26,
     spAuto |-> Null, humidity |-> 45, rssi |-> Undefined],
    [roomTemp |-> Null, operationMode |-> "off", power |-> 0, spHeat |-> 20, spCool |-> 24,
     spAuto |-> Null, humidity |-> Null, rssi |-> Undefined] }

\* device_update payloads the stream may deliver for a device
PushPayloads ==
  { [roomTemp |-> 23, operationMode |-> "cool", power |-> 1, spHeat |-> 20, spCool |-> 24,
     spAuto |-> Undefined, humidity |-> Undefined, rssi |-> Undefined],
    [roomTemp |-> Undefined, operationMode |-> "cool", power |-> 1, spHeat |-> 20, spCool |-> 24,
     spAuto |-> Undefined, humidity |-> Undefined, rssi |-> Undefined],
    [roomTemp |-> 23, operationMode |-> "cool", power |-> 1, spHeat |-> 20, spCool |-> 24,
     spAuto |-> Undefined, humidity |-> 0, rssi |-> Undefined] }

\* the zone lists the remote may report for a site: the zones of any subset
\* of its devices
ZoneResponses(s) ==
  UNION {[D -> PullAdapters] : D \in SUBSET {d \in Devices : getSiteId[d] = s}}

\* an empty array of zones
NoZones == << >>

\* ETag header values of the remote
ETags == {"e1", "e2"}

\* how a GET /sites/{siteId}/zones may end for its caller: the token could
\* not be obtained, fetch threw, a status without body, or 200 with the
\* zones and possibly an etag header
HttpResponses(s, statuses, etags) ==
  {[kind |-> "authFailed"], [kind |-> "exception"]}
    \cup {[kind |-> "status", status |-> st] : st \in statuses}
    \cup {[kind |-> "ok", zones |-> z, etag |-> e] : z \in ZoneResponses(s), e \in etags}

\* the answers to the plain pull and to the conditional pull
PullResponses(s) == HttpResponses(s, {500}, {None})

ConditionalPullResponses(s) == HttpResponses(s, {304, 500}, ETags \cup {None})

\* KumoAPI.getZones: what it resolves to for a response
getZones(response) ==
  IF response.kind = "ok" THEN response.zones ELSE NoZones

\* KumoAPI.getZonesWithETag: what it resolves to for a response
notModified_Never(response) == FALSE

notModified(response) == response.kind = "status" /\ response.status = 304

getZonesWithETag(response) ==
  [zones |-> IF response.kind = "ok" THEN response.zones ELSE NoZones,
   notModified |-> notModified(response)]

\* KumoAPI.getZonesWithETag: "Store new ETag"
storeETag(etag, response) ==
  IF response.kind = "ok" /\ response.etag # None THEN response.etag ELSE etag

\* handleStreamingUpdate: "data.roomTemp === undefined || data.roomTemp === null"
streamingDataInvalid(data) == data.roomTemp = Undefined \/ data.roomTemp = Null

\* processZoneUpdate: "zone.adapter.roomTemp === undefined || zone.adapter.roomTemp === null"
roomTempInvalid_NullAccepted(adapter) == adapter.roomTemp = Undefined

roomTempInvalid(adapter) == adapter.roomTemp = Undefined \/ adapter.roomTemp = Null

\* processZoneUpdate: "Convert adapter data to DeviceStatus format"
zoneToStatus_SwapsSetpoints(adapter) ==
  [rssi |-> Or(adapter.rssi, 0),
   power |-> adapter.power,
   operationMode |-> adapter.operationMode,
   humidity |-> adapter.humidity,
   roomTemp |-> adapter.roomTemp,
   spCool |-> adapter.spHeat,
   spHeat |-> adapter.spCool,
   spAuto |-> adapter.spAuto]

zoneToStatus(adapter) ==
  [rssi |-> Or(adapter.rssi, 0),
   power |-> adapter.power,
   operationMode |-> adapter.operationMode,
   humidity |-> adapter.humidity,
   roomTemp |-> adapter.roomTemp,
   spCool |-> adapter.spCool,
   spHeat |-> adapter.spHeat,
   spAuto |-> adapter.spAuto]

\* handleStreamingUpdate: "Convert streaming data format to zone format"
streamingToZone(data) ==
  [roomTemp |-> data.roomTemp,
   spHeat |-> data.spHeat,
   spCool |-> data.spCool,
   spAuto |-> Or(data.spAuto, Null),
   humidity |-> Or(data.humidity, Null),
   power |-> data.power,
   operationMode |-> data.operationMode,
   rssi |-> data.rssi]

\* processZoneUpdate(zone) of the handler of device d: the stored status and
\* the humidity flag it leaves
processZoneUpdate(d, adapter) ==
  IF roomTempInvalid(adapter)
    THEN [status |-> currentStatus[d], humidity |-> hasHumiditySensor[d]]
    ELSE [status |-> zoneToStatus(adapter),
          humidity |-> (adapter.humidity # Null /\ adapter.humidity # Undefined)]

\* pollSite: "const zone = zones.find(...); if (zone) handler.updateFromZone(zone)
\* else log.warn": the stored status of d after zones were distributed
statusAfterPull_ClearsMissing(d, zones) ==
  IF d \in DOMAIN zones THEN processZoneUpdate(d, zones[d]).status ELSE NoStatus

statusAfterPull(d, zones) ==
  IF d \in DOMAIN zones THEN processZoneUpdate(d, zones[d]).status ELSE currentStatus[d]

\* pollSite after its await: getZones has resolved for pull p, and each
\* handler of the site gets its zone (updateFromZone)
pollSiteResponse(p, response) ==
  /\ p \in BagToSet(inflight)
  /\ inflight' = inflight (-) SetToBag({p})
  /\ LET zones == getZones(response)
         updated(d) == d \in siteAccessories[p.site] /\ d \in DOMAIN zones
     IN  /\ currentStatus' = [d \in Devices |->
               IF d \in siteAccessories[p.site] THEN statusAfterPull(d, zones)
                                                ELSE currentStatus[d]]
         /\ hasHumiditySensor' = [d \in Devices |->
               IF updated(d) THEN processZoneUpdate(d, zones[d]).humidity ELSE hasHumiditySensor[d]]
         /\ event' = [kind |-> "pull", pull |-> p, response |-> response, zones |-> zones]
  /\ UNCHANGED <<isShutDown, kumoConfig, isStreamingHealthy, isDegradedMode, sitePollers, liveTimers,
                 siteAccessories, accessoryHandlers, discovery>>
  /\ UNCHANGED <<authVars, siteEtags, reconnectAttempts, subscriptionVars, cmds, commandsSent, statusFetches>>

\* handleStreamingUpdate(deviceSerial, data): the callback that the handler
\* of d registered with subscribeToDevice
handleStreamingUpdate(d, data) ==
  /\ d \in accessoryHandlers
  /\ discovery \in {"streaming", "done"}
  /\ IF streamingDataInvalid(data)
       THEN UNCHANGED <<currentStatus, hasHumiditySensor>>
       ELSE LET r == processZoneUpdate(d, streamingToZone(data))
            IN  /\ currentStatus' = [currentStatus EXCEPT ![d] = r.status]
                /\ hasHumiditySensor' = [hasHumiditySensor EXCEPT ![d] = r.humidity]
  /\ inflight' = IF streamingDataInvalid(data) THEN inflight
                 ELSE BagOfAll(LAMBDA p : IF p.site = getSiteId[d]
                                            THEN [p EXCEPT !.pushed = @ \cup {d}]
                                            ELSE p,
                               inflight)
  /\ event' = [kind |-> "push", device |-> d, data |-> data]
  /\ UNCHANGED <<isShutDown, kumoConfig, isStreamingHealthy, isDegradedMode, sitePollers, liveTimers,
                 siteAccessories, accessoryHandlers, discovery>>
  /\ UNCHANGED <<authVars, siteEtags, reconnectAttempts, subscriptionVars, cmds, commandsSent, statusFetches>>

(***************************************************************************)
(* KumoThermostatAccessory: characteristic getters                         *)
(***************************************************************************)
\* what GET /devices/{serial}/status can deliver to getDeviceStatus: null
\* (any failure) or a DeviceStatus, whose roomTemp the server may leave out
FetchedStatuses ==
  {[rssi |-> 0, power |-> 1, operationMode |-> "heat", humidity |-> Null, roomTemp |-> temp,
    spCool |-> 26, spHeat |-> 20, spAuto |-> Null] : temp \in {21, Null, Undefined}}

StatusResponses == {[kind |-> "null"]} \cup {[kind |-> "status", status |-> st] : st \in FetchedStatuses}

\* getCurrentHeatingCoolingState, getTargetHeatingCoolingState,
\* getCurrentTemperature, getTargetTemperature up to their await of
\* getDeviceStatus: only "if (!this.currentStatus)" fetches
getterFetch(d) ==
  /\ d \in accessoryHandlers
  /\ currentStatus[d] = NoStatus
  /\ BagCardinality(statusFetches) < MaxInFlight
  /\ statusFetches' = statusFetches (+) SetToBag({d})
  /\ event' = [kind |-> "get", device |-> d]
  /\ UNCHANGED <<platformVars, authVars, siteEtags, reconnectAttempts, subscriptionVars, currentStatus,
                 hasHumiditySensor, cmds, commandsSent>>

\* "if (status) { this.currentStatus = status; }"
storeFetched(stored, response) ==
  IF response.kind = "status" THEN response.status ELSE stored

\* the getter after its await: the fetched status is stored as it came
getterResponse(d, response) ==
  /\ BagIn(d, statusFetches)
  /\ statusFetches' = statusFetches (-) SetToBag({d})
  /\ currentStatus' = [currentStatus EXCEPT ![d] = storeFetched(@, response)]
  /\ event' = [kind |-> "got", device |-> d, response |-> response]
  /\ UNCHANGED <<platformVars, authVars, siteEtags, reconnectAttempts, subscriptionVars,
                 hasHumiditySensor, cmds, commandsSent>>

(***************************************************************************)
(* KumoThermostatAccessory: commands                                       *)
(***************************************************************************)
\* Characteristic.TargetHeatingCoolingState: OFF, HEAT, COOL, AUTO
TargetStates == 0..3

\* target temperatures HomeKit sends in the model
TargetTemps == {25}

NoCommands == [operationMode |-> None, spHeat |-> Undefined, spCool |-> Undefined]

\* setTargetHeatingCoolingState: the switch on value
targetStateToMode(value) ==
  CASE value = 0 -> "off"
    [] value = 1 -> "heat"
    [] value = 2 -> "cool"
    [] value = 3 -> "auto"
    [] OTHER -> None

\* setTargetTemperature: "Set the appropriate setpoint based on current mode"
setpointCommands(status, temp) ==
  IF status.operationMode = "heat" THEN [NoCommands EXCEPT !.spHeat = temp]
  ELSE IF status.operationMode = "cool" THEN [NoCommands EXCEPT !.spCool = temp]
  ELSE IF status.operationMode = "auto" THEN [NoCommands EXCEPT !.spHeat = temp, !.spCool = temp]
  ELSE [NoCommands EXCEPT !.spHeat = temp]

\* getTargetTempFromStatus(status)
getTargetTempFromStatus(status) ==
  IF status.operationMode = "heat" /\ status.spHeat \notin {Undefined, Null} THEN status.spHeat
  ELSE IF status.operationMode = "cool" /\ status.spCool \notin {Undefined, Null} THEN status.spCool
  ELSE IF status.operationMode = "auto" /\ status.spAuto \notin {Undefined, Null} THEN status.spAuto
  ELSE IF status.spHeat \notin {Undefined, Null} THEN status.spHeat
  ELSE 20

\* getTargetTemperature() of a handler whose status is known
getTargetTemperature(d) == getTargetTempFromStatus(currentStatus[d])

\* kumoAPI.sendCommand(deviceSerial, commands) up to its await; issuedOn
\* remembers the stored status the caller looked at
sendCommand(d, commands) ==
  /\ commandsSent < MaxCommands
  /\ commandsSent' = commandsSent + 1
  /\ cmds' = cmds (+) SetToBag({[device |-> d, commands |-> commands,
                                  issuedOn |-> currentStatus[d]]})

\* setTargetHeatingCoolingState(value) up to the await of sendCommand
setTargetHeatingCoolingState(d, value) ==
  /\ d \in accessoryHandlers
  /\ IF targetStateToMode(value) = None
       THEN UNCHANGED <<cmds, commandsSent>>
       ELSE sendCommand(d, [NoCommands EXCEPT !.operationMode = targetStateToMode(value)])
  /\ event' = [kind |-> "set"]
  /\ UNCHANGED <<platformVars, authVars, siteEtags, reconnectAttempts, subscriptionVars, currentStatus, hasHumiditySensor,
                 statusFetches>>

\* setTargetTemperature(value) up to the await of sendCommand
setTargetTemperature(d, temp) ==
  /\ d \in accessoryHandlers
  /\ IF currentStatus[d] = NoStatus
       THEN UNCHANGED <<cmds, commandsSent>>
       ELSE sendCommand(d, setpointCommands(currentStatus[d], temp))
  /\ event' = [kind |-> "set"]
  /\ UNCHANGED <<platformVars, authVars, siteEtags, reconnectAttempts, subscriptionVars, currentStatus, hasHumiditySensor,
                 statusFetches>>

\* the fields of the stored status that the optimistic update of a command writes
commandedFields(commands) ==
  (IF commands.operationMode # None THEN {"operationMode", "power"} ELSE {})
    \cup (IF commands.spHeat # Undefined THEN {"spHeat"} ELSE {})
    \cup (IF commands.spCool # Undefined THEN {"spCool"} ELSE {})

\* "Optimistic update - immediately update local state"
optimisticUpdate_PowerStaysOn(status, commands) ==
  [status EXCEPT
     !.operationMode = IF commands.operationMode # None THEN commands.operationMode ELSE @,
     !.power = IF commands.operationMode = None THEN @ ELSE 1,
     !.spHeat = IF commands.spHeat # Undefined THEN commands.spHeat ELSE @,
     !.spCool = IF commands.spCool # Undefined THEN commands.spCool ELSE @]

optimisticUpdate(status, commands) ==
  [status EXCEPT
     !.operationMode = IF commands.operationMode # None THEN commands.operationMode ELSE @,
     !.power = IF commands.operationMode = None THEN @
               ELSE IF commands.operationMode = "off" THEN 0 ELSE 1,
     !.spHeat = IF commands.spHeat # Undefined THEN commands.spHeat ELSE @,
     !.spCool = IF commands.spCool # Undefined THEN commands.spCool ELSE @]

\* "if (success) { if (this.currentStatus) { ... } }"
optimisticApplies_IgnoresResult(success, status) == status # NoStatus

optimisticApplies(success, status) == success /\ status # NoStatus

\* how the promise of setTargetHeatingCoolingState / setTargetTemperature
\* settles once sendCommand has resolved to success: both branches fall off
\* the end of the method
commandOutcome(success) == IF success THEN "resolved" ELSE "resolved"

\* what makeAuthenticatedRequest of sendCommand may end with: the token could
\* not be obtained, fetch or response.json() threw, a status that is not OK,
\* or 200 with a parsed body: null, an object without devices, an object
\* whose devices is not an array, or an object with an array of serials
CommandBodies ==
  {[shape |-> sh, devices |-> {}] : sh \in {"null", "noDevices", "notArray"}}
    \cup {[shape |-> "array", devices |-> D] : D \in SUBSET {"D1", "D2"}}

CommandResponses ==
  {[kind |-> "authFailed"], [kind |-> "exception"], [kind |-> "status", status |-> 500]}
    \cup {[kind |-> "ok", body |-> b] : b \in CommandBodies}

\* KumoAPI.sendCommand after makeAuthenticatedRequest has resolved
sendCommandResult_AnyArray(d, response) ==
  /\ response.kind = "ok"
  /\ response.body.shape = "array"

sendCommandResult(d, response) ==
  /\ response.kind = "ok"
  /\ response.body.shape = "array"
  /\ d \in response.body.devices

\* sendCommand has resolved for command c: the rest of
\* setTargetHeatingCoolingState / setTargetTemperature
sendCommandResponse(c, response) ==
  LET success == sendCommandResult(c.device, response) IN
  /\ c \in BagToSet(cmds)
  /\ cmds' = cmds (-) SetToBag({c})
  /\ IF optimisticApplies(success, currentStatus[c.device])
       THEN /\ currentStatus' = [currentStatus EXCEPT
                                   ![c.device] = optimisticUpdate(@, c.commands)]
            /\ inflight' = BagOfAll(
                 LAMBDA p : IF p.site = getSiteId[c.device]
                              THEN [p EXCEPT !.stale = @ \cup ({c.device} \X commandedFields(c.commands))]
                              ELSE p,
                 inflight)
       ELSE UNCHANGED <<currentStatus, inflight>>
  /\ event' = [kind |-> "commandDone", device |-> c.device, success |-> success,
                commands |-> c.commands, outcome |-> commandOutcome(success),
                response |-> response, issuedOn |-> c.issuedOn]
  /\ UNCHANGED <<isShutDown, kumoConfig, isStreamingHealthy, isDegradedMode, sitePollers, liveTimers,
                 siteAccessories, accessoryHandlers, discovery>>
  /\ UNCHANGED <<authVars, siteEtags, reconnectAttempts, subscriptionVars, hasHumiditySensor, commandsSent, statusFetches>>

(***************************************************************************)
(* KumoAPI: the pull adapters as seen by their caller                      *)
(***************************************************************************)
\* getZones(siteId) resolves for its caller
getZonesReturns(s, response) ==
  /\ event' = [kind |-> "fetch", method |-> "getZones", site |-> s,
                response |-> response, result |-> getZones(response)]
  /\ UNCHANGED <<authVars, platformVars, accessoryVars, siteEtags, reconnectAttempts, subscriptionVars>>

\* getZonesWithETag(siteId) resolves for its caller
getZonesWithETagReturns(s, response) ==
  /\ siteEtags' = [siteEtags EXCEPT ![s] = storeETag(@, response)]
  /\ event' = [kind |-> "fetch", method |-> "getZonesWithETag", site |-> s,
                response |-> response, result |-> getZonesWithETag(response)]
  /\ UNCHANGED <<authVars, platformVars, accessoryVars, reconnectAttempts, subscriptionVars>>

\* siteEtags = new Map()
InitFetch == siteEtags = [s \in Sites |-> None]

\* "private reconnectAttempts: number = 0"
InitStream ==
  /\ reconnectAttempts = 0
  /\ deviceUpdateCallbacks = {}
  /\ socketConnected = FALSE
  /\ subscribed = {}

Init == InitAuth /\ InitSync /\ InitFetch /\ InitStream

NextPoll ==
  \/ \E ok \in BOOLEAN : discoverDevices(Devices, ok)
  \/ discoverDevicesStartPollers
  \/ \E isHealthy \in BOOLEAN : handleStreamingHealthChange(isHealthy)
  \/ \E s \in Sites : PollTimerFires(s)
  \/ \E p \in BagToSet(inflight) : \E r \in PullResponses(p.site) : pollSiteResponse(p, r)
  \/ cleanup
  \/ \E s \in Sites : startSitePollerAgain(s)

NextDev ==
  \/ \E ok \in BOOLEAN : discoverDevices(Devices, ok)
  \/ discoverDevicesStartPollers
  \/ \E s \in Sites : PollTimerFires(s)
  \/ \E p \in BagToSet(inflight) : \E r \in PullResponses(p.site) : pollSiteResponse(p, r)
  \/ \E d \in Devices, data \in PushPayloads : handleStreamingUpdate(d, data)

NextCmd ==
  \/ \E ok \in BOOLEAN : discoverDevices(Devices, ok)
  \/ discoverDevicesStartPollers
  \/ \E s \in Sites : PollTimerFires(s)
  \/ \E p \in BagToSet(inflight) : \E r \in PullResponses(p.site) : pollSiteResponse(p, r)
  \/ \E d \in Devices, value \in TargetStates : setTargetHeatingCoolingState(d, value)
  \/ \E d \in Devices, temp \in TargetTemps : setTargetTemperature(d, temp)
  \/ \E c \in BagToSet(cmds), response \in CommandResponses : sendCommandResponse(c, response)

NextFetch ==
  \/ \E ok \in BOOLEAN : discoverDevices(Devices, ok)
  \/ \E d \in Devices, data \in PushPayloads : handleStreamingUpdate(d, data)
  \/ \E s \in Sites : \E r \in PullResponses(s) : getZonesReturns(s, r)
  \/ \E s \in Sites : \E r \in ConditionalPullResponses(s) : getZonesWithETagReturns(s, r)

\* the configuration with every setting left out
InitDefault == Init /\ kumoConfig = defaultConfig

SpecAuth == InitDefault /\ [][NextAuth]_vars

\* the program's own steps (timer callbacks, the clock) are taken when they
\* can be; the remote is not obliged to answer, and fetch is called without
\* a timeout or an abort signal, so no step of the program ends a request
SpecAuthFair ==
  /\ SpecAuth
  /\ WF_vars(RefreshTimerFires)
  /\ WF_vars(ClockAdvance)

SpecPoll == Init /\ [][NextPoll]_vars

\* one site, polling enabled or disabled, with health changes and pushes
NextStop ==
  \/ \E ok \in BOOLEAN : discoverDevices(Devices, ok)
  \/ discoverDevicesStartPollers
  \/ \E isHealthy \in BOOLEAN : handleStreamingHealthChange(isHealthy)
  \/ \E s \in Sites : PollTimerFires(s)
  \/ \E p \in BagToSet(inflight) : \E r \in PullResponses(p.site) : pollSiteResponse(p, r)
  \/ \E d \in Devices, data \in PushPayloads : handleStreamingUpdate(d, data)

InitStop ==
  /\ Init
  /\ \E b \in BOOLEAN :
        kumoConfig = [defaultConfig EXCEPT !.excludeDevices = {"D3"}, !.disablePolling = b]

SpecStop == InitStop /\ [][NextStop]_vars

\* one site whose pulls list device D1 in every operation mode, with and
\* without an auto setpoint, and target temperatures set
OperationModes == {"heat", "cool", "auto", "off", "vent", "dry"}

ModeAdapters ==
  {[roomTemp |-> 21, operationMode |-> mode, power |-> (IF mode = "off" THEN 0 ELSE 1),
    spHeat |-> 20, spCool |-> 26, spAuto |-> auto, humidity |-> Null, rssi |-> Undefined] :
     mode \in OperationModes, auto \in {Null, 23}}

ModePullResponses ==
  {[kind |-> "ok", zones |-> [d \in {"D1"} |-> adapter], etag |-> None] : adapter \in ModeAdapters}

NextSetpoint ==
  \/ \E ok \in BOOLEAN : discoverDevices(Devices, ok)
  \/ discoverDevicesStartPollers
  \/ \E s \in Sites : PollTimerFires(s)
  \/ \E p \in BagToSet(inflight) : \E r \in ModePullResponses : pollSiteResponse(p, r)
  \/ \E d \in Devices, temp \in TargetTemps : setTargetTemperature(d, temp)
  \/ \E c \in BagToSet(cmds), response \in CommandResponses : sendCommandResponse(c, response)

\* one site, health driven by the socket's connect and disconnect events
NextStream ==
  \/ \E ok \in BOOLEAN : discoverDevices(Devices, ok)
  \/ discoverDevicesStartPollers
  \/ streamConnect
  \/ \E reason \in DisconnectReasons : streamDisconnect(reason)
  \/ \E s \in Sites : PollTimerFires(s)
  \/ \E p \in BagToSet(inflight) : \E r \in PullResponses(p.site) : pollSiteResponse(p, r)

SpecStream == InitStop /\ [][NextStream]_vars

\* a configuration that leaves the two devices of one site
InitOneSite == Init /\ kumoConfig = [defaultConfig EXCEPT !.excludeDevices = {"D3"}]

SpecDev == InitOneSite /\ [][NextDev]_vars

SpecCmd == InitOneSite /\ [][NextCmd]_vars

SpecFetch == InitOneSite /\ [][NextFetch]_vars

SpecSetpoint == InitOneSite /\ [][NextSetpoint]_vars

\* every configuration the constructor accepts, then discovery, health
\* changes and pulls on one site
InitConfig ==
  /\ InitAuth /\ InitPlatform /\ InitFetch /\ InitStream
  /\ kumoConfig \in AcceptedConfigs

NextConfig ==
  \/ \E ok \in BOOLEAN : discoverDevices(Devices, ok)
  \/ discoverDevicesStartPollers
  \/ \E isHealthy \in BOOLEAN : handleStreamingHealthChange(isHealthy)
  \/ \E s \in Sites : PollTimerFires(s)
  \/ \E p \in BagToSet(inflight) : \E r \in PullResponses(p.site) : pollSiteResponse(p, r)

SpecConfig == InitConfig /\ [][NextConfig]_vars

\* one site with pulls, pushes and the characteristic getters
NextGetter ==
  \/ \E ok \in BOOLEAN : discoverDevices(Devices, ok)
  \/ discoverDevicesStartPollers
  \/ \E s \in Sites : PollTimerFires(s)
  \/ \E p \in BagToSet(inflight) : \E r \in PullResponses(p.site) : pollSiteResponse(p, r)
  \/ \E d \in Devices, data \in PushPayloads : handleStreamingUpdate(d, data)
  \/ \E d \in Devices : getterFetch(d)
  \/ \E d \in Devices, response \in StatusResponses : getterResponse(d, response)

SpecGetter == InitOneSite /\ [][NextGetter]_vars

\* one site from startup to shutdown: the platform's login, the refresh
\* timer and its refresh, discovery, health changes, pulls, and cleanup
NextShutdown ==
  \/ login
  \/ \E o \in OpIds, ok \in BOOLEAN : LoginResponse(o, ok)
  \/ \E o \in OpIds, ok \in BOOLEAN : RefreshResponse(o, ok)
  \/ RefreshTimerFires
  \/ ClockAdvance
  \/ \E ok \in BOOLEAN : discoverDevices(Devices, ok)
  \/ discoverDevicesStartPollers
  \/ \E isHealthy \in BOOLEAN : handleStreamingHealthChange(isHealthy)
  \/ \E s \in Sites : PollTimerFires(s)
  \/ \E p \in BagToSet(inflight) : \E r \in PullResponses(p.site) : pollSiteResponse(p, r)
  \/ cleanup

SpecShutdown == InitOneSite /\ [][NextShutdown]_vars

\* the streaming interface of KumoAPI: discovery starts streaming, the socket
\* connects and disconnects, callbacks are registered and dropped
NextSubscribe ==
  \/ \E ok \in BOOLEAN : discoverDevices(Devices, ok)
  \/ discoverDevicesStartPollers
  \/ streamConnect
  \/ \E reason \in DisconnectReasons : streamDisconnect(reason)
  \/ \E d \in Devices : subscribeToDevice(d)
  \/ \E d \in Devices : unsubscribeFromDevice(d)

SpecSubscribe == InitOneSite /\ [][NextSubscribe]_vars

(***************************************************************************)
(* Token session properties                                                *)
(***************************************************************************)
\* the operations that refresh or re-authenticate on behalf of a request or
\* of the refresh timer
RefreshOps == EnsureOps \cup UnauthOps \cup {TimerOp}

OpsInFlight(S) == {o \in S : opPhase[o] # "none"}

Awaiting == {c \in Callers : pc[c] = "await"}

\* C1: calls to ensureAuthenticated that overlap while no usable token exists
\* all await one and the same operation, exactly one such operation is
\* running, and every one of them returns that operation's outcome.
C1_OverlappingCallsShareOneRefresh ==
  /\ \A c1, c2 \in Awaiting : joined[c1] = joined[c2]
  /\ \A c \in Awaiting : OpsInFlight(EnsureOps) = {joined[c]}
  /\ \A c \in Callers :
       (joined[c] # NoOp /\ pc[c] # "await") => authResult[c] = opOutcome[joined[c]]

C1_Witness ==
  \E c1, c2 \in Callers :
    /\ c1 # c2
    /\ joined[c1] # NoOp
    /\ joined[c1] = joined[c2]
    /\ pc[c1] # "await" /\ pc[c2] # "await"
    /\ authResult[c1] = authResult[c2]
    /\ authResult[c1] = B(FALSE)

\* C2: at most one token refresh / re-authentication operation is in flight,
\* whether it was started by ensureAuthenticated, by the 401 handler or by the
\* refresh timer.
C2_AtMostOneRefreshInFlight ==
  Cardinality(OpsInFlight(RefreshOps)) <= 1

(***************************************************************************)
(* Polling controller properties                                           *)
(***************************************************************************)
\* a step on which the recorded streaming health changes
HealthBecomesUnhealthy == isStreamingHealthy /\ ~isStreamingHealthy'

HealthBecomesHealthy == ~isStreamingHealthy /\ isStreamingHealthy'

\* the site's recorded timer is live, is the only live timer of the site and
\* runs at interval ms
PollLoopRunsAt(s, ms) ==
  /\ sitePollers[s] = ms
  /\ BagToSet(liveTimers[s]) = {ms}
  /\ CopiesIn(ms, liveTimers[s]) = 1

NoPollTimer(s) == sitePollers[s] = NoTimer /\ liveTimers[s] = EmptyBag

\* C3: with disablePolling, when streaming health changes from healthy to
\* unhealthy a poll timer becomes armed, at the degraded interval, for every
\* site that has discovered devices.
C3_FallbackPollingActivates ==
  [][(kumoConfig.disablePolling /\ discovery = "done" /\ HealthBecomesUnhealthy)
       => \A s \in uniqueSites : PollLoopRunsAt(s, degradedPollInterval)']_vars

\* C4: on a change to unhealthy, every site whose poll loop is active has its
\* timer cancelled and replaced by one at the degraded interval and gets
\* exactly one immediate pull; while the platform stays in degraded mode no
\* timer of another interval is live.
C4_UnhealthyRestartsActivePollers ==
  /\ [][HealthBecomesUnhealthy =>
          \A s \in Sites : sitePollers[s] # NoTimer =>
             /\ PollLoopRunsAt(s, degradedPollInterval)'
             /\ PullsFor(s, inflight') = PullsFor(s, inflight) + 1]_vars
  /\ [](isDegradedMode =>
          \A s \in Sites : BagToSet(liveTimers[s]) \subseteq {degradedPollInterval})

C4_Witness ==
  /\ event.kind = "health"
  /\ ~isStreamingHealthy
  /\ isDegradedMode
  /\ degradedPollInterval # normalPollInterval
  /\ \A s \in Sites : PollLoopRunsAt(s, degradedPollInterval) /\ PullsFor(s, inflight) = 1

\* C5: health handling is edge-triggered: a notification that repeats the
\* recorded health changes neither the flags nor any timer and issues no
\* pull, and the mode flag changes only on a notification that differs from
\* the recorded health.
C5_HealthEdgeTriggered ==
  /\ [][(event'.kind = "health" /\ event'.isHealthy = isStreamingHealthy)
          => UNCHANGED <<isStreamingHealthy, isDegradedMode, sitePollers, liveTimers, inflight>>]_vars
  /\ [][(isDegradedMode' # isDegradedMode)
          => (event'.kind = "health" /\ event'.isHealthy # isStreamingHealthy)]_vars

C5_Witness ==
  /\ event.kind = "health"
  /\ event.isHealthy = FALSE
  /\ ~isStreamingHealthy
  /\ ~isDegradedMode
  /\ \E s \in Sites : sitePollers[s] # NoTimer /\ PullsFor(s, inflight) = 0

\* C6: whenever streaming is unhealthy, every site with discovered devices
\* has a poll loop running at the degraded interval.
C6_UnhealthyMeansDegradedPolling ==
  (discovery = "done" /\ ~isStreamingHealthy)
     => \A s \in uniqueSites : PollLoopRunsAt(s, degradedPollInterval)

\* C7: with disablePolling, no site poll timer is armed while streaming is
\* healthy.
C7_NoTimerWhileHealthyWhenDisabled ==
  (kumoConfig.disablePolling /\ isStreamingHealthy) => \A s \in Sites : NoPollTimer(s)

C7_Witness ==
  /\ kumoConfig.disablePolling
  /\ isStreamingHealthy
  /\ discovery = "done"
  /\ uniqueSites = Sites
  /\ event.kind = "health"
  /\ \A s \in Sites : NoPollTimer(s)

\* C8: without disablePolling, on every health change to healthy each site's
\* poll timer is cancelled and rescheduled at the normal interval and exactly
\* one immediate pull per site is issued.
C8_HealthyRestartsPollers ==
  [][(~kumoConfig.disablePolling /\ HealthBecomesHealthy) =>
        \A s \in Sites : sitePollers[s] # NoTimer =>
           /\ PollLoopRunsAt(s, normalPollInterval)'
           /\ PullsFor(s, inflight') = PullsFor(s, inflight) + 1]_vars

(***************************************************************************)
(* Device store properties                                                 *)
(***************************************************************************)
MissingTemp(snapshot) == snapshot.roomTemp = Null \/ snapshot.roomTemp = Undefined

\* C9: a snapshot delivered by push or by pull whose roomTemp is null or
\* undefined is discarded: the stored state of its device stays what it was,
\* and no device is changed by it (a pull changes only the devices whose own
\* snapshot in the response has a temperature).
C9_SnapshotWithoutTempDiscarded ==
  /\ [][(event'.kind = "push" /\ MissingTemp(event'.data))
          => UNCHANGED <<currentStatus, hasHumiditySensor>>]_vars
  /\ [][event'.kind = "pull" =>
          \A d \in Devices :
             (d \notin DOMAIN event'.zones \/ MissingTemp(event'.zones[d]))
                => (currentStatus'[d] = currentStatus[d]
                    /\ hasHumiditySensor'[d] = hasHumiditySensor[d])]_vars

C9_Witness ==
  /\ event.kind = "pull"
  /\ DOMAIN event.zones = {"D1", "D2"}
  /\ MissingTemp(event.zones["D1"])
  /\ ~MissingTemp(event.zones["D2"])
  /\ currentStatus["D1"] # NoStatus
  /\ currentStatus["D1"].operationMode = "cool"
  /\ currentStatus["D2"] = zoneToStatus(event.zones["D2"])

\* C10: the response of a pull that was issued before a command succeeded
\* does not overwrite the fields that command's optimistic update wrote.
C10_StalePullKeepsCommandedFields ==
  [][event'.kind = "pull" =>
       \A f \in event'.pull.stale : currentStatus'[f[1]][f[2]] = currentStatus[f[1]][f[2]]]_vars

\* C11: newer updates take precedence: the response of a pull that was in
\* flight when a streaming update for a device was stored does not replace
\* that device's newer state.
C11_OlderPullNeverReplacesNewerPush ==
  [][event'.kind = "pull" =>
       \A d \in event'.pull.pushed : currentStatus'[d] = currentStatus[d]]_vars

\* a step on which a command of device d completes with the given result
CommandCompletes(d, success) ==
  event'.kind = "commandDone" /\ event'.device = d /\ event'.success = success

\* C12: when a command succeeds for a device with a stored state, the state
\* right after has the commanded fields at the commanded values (power 0 for
\* 'off', 1 otherwise) and every other field, and every other device, as
\* before.
C12_SuccessMergesCommandedFields ==
  [][\A d \in Devices :
       (CommandCompletes(d, TRUE) /\ currentStatus[d] # NoStatus) =>
          LET c == event'.commands
              old == currentStatus[d]
              new == currentStatus'[d]
          IN  /\ new # NoStatus
              /\ c.operationMode # None =>
                    /\ new.operationMode = c.operationMode
                    /\ new.power = (IF c.operationMode = "off" THEN 0 ELSE 1)
              /\ c.spHeat # Undefined => new.spHeat = c.spHeat
              /\ c.spCool # Undefined => new.spCool = c.spCool
              /\ \A f \in DOMAIN old \ commandedFields(c) : new[f] = old[f]
              /\ \A e \in Devices \ {d} : currentStatus'[e] = currentStatus[e]]_vars

C12_Witness ==
  /\ event.kind = "commandDone"
  /\ event.success
  /\ event.commands.operationMode = "off"
  /\ currentStatus[event.device] # NoStatus
  /\ currentStatus[event.device].operationMode = "off"
  /\ currentStatus[event.device].power = 0
  /\ currentStatus[event.device].roomTemp = 21

\* C13: when a command fails, the stored state of every device is what it
\* was before and no further command request is issued.
C13_FailureLeavesStateAndDoesNotRetry ==
  [][\A d \in Devices :
       CommandCompletes(d, FALSE) =>
          /\ UNCHANGED <<currentStatus, hasHumiditySensor, commandsSent>>
          /\ BagCardinality(cmds') = BagCardinality(cmds) - 1]_vars

C13_Witness ==
  /\ event.kind = "commandDone"
  /\ ~event.success
  /\ event.commands.operationMode = "cool"
  /\ currentStatus[event.device] # NoStatus
  /\ currentStatus[event.device].operationMode = "heat"
  /\ cmds = EmptyBag

\* C14: a failed command is reported as failed to the caller: the outcome
\* with which the command operation completes after a failure differs from
\* the one after a success.
C14_FailureReportedToCaller ==
  [][\A d \in Devices :
       CommandCompletes(d, FALSE) => event'.outcome # commandOutcome(TRUE)]_vars

\* C15: every successful command brings about a confirmation fetch of its
\* device: the step that completes it leaves one more fetch pending for the
\* device's site, whether or not a poll timer is armed.
C15_SuccessSchedulesConfirmationFetch ==
  [][\A d \in Devices :
       CommandCompletes(d, TRUE) =>
          PullsFor(getSiteId[d], inflight') > PullsFor(getSiteId[d], inflight)]_vars

(***************************************************************************)
(* Pull adapter properties                                                 *)
(***************************************************************************)
\* a step on which the named adapter resolves for its caller
Fetched(method) == event'.kind = "fetch" /\ event'.method = method

\* the remote answered 'unchanged'
Unchanged304(response) == response.kind = "status" /\ response.status = 304

\* a successful fetch that returned zero zones
EmptySuccess == [kind |-> "ok", zones |-> NoZones, etag |-> None]

\* what the named adapter resolves to for a response
ResultOf(method, response) ==
  IF method = "getZones" THEN getZones(response) ELSE getZonesWithETag(response)

\* C16: getZonesWithETag reports notModified exactly when the remote answers
\* 304; then the stored ETags and every device's stored state are as before;
\* a successful response with zero zones is reported with notModified false.
C16_NotModifiedOnlyOn304 ==
  [][Fetched("getZonesWithETag") =>
       /\ event'.result.notModified <=> Unchanged304(event'.response)
       /\ event'.result.notModified =>
             UNCHANGED <<siteEtags, currentStatus, hasHumiditySensor>>
       /\ (event'.response.kind = "ok" /\ event'.response.zones = NoZones) =>
             (~event'.result.notModified /\ event'.result.zones = NoZones)]_vars

C16_Witness ==
  /\ event.kind = "fetch"
  /\ event.method = "getZonesWithETag"
  /\ Unchanged304(event.response)
  /\ event.result.notModified
  /\ siteEtags[event.site] = "e1"
  /\ currentStatus["D1"] # NoStatus

\* C17: the outcomes of the pull adapters are distinguishable by the caller:
\* a failed fetch resolves to something different from a successful fetch
\* of an empty collection and from 'no update'.
C17_FailureDistinguishable ==
  [][\A m \in {"getZones", "getZonesWithETag"} :
       (Fetched(m) /\ event'.response.kind # "ok" /\ ~Unchanged304(event'.response)) =>
          /\ event'.result # ResultOf(m, EmptySuccess)
          /\ event'.result # ResultOf(m, [kind |-> "status", status |-> 304])]_vars

\* C18: when a site poll fails, or its response lacks a device, the stored
\* state of every affected device is unchanged: a stored status is never
\* cleared by a pull.
C18_FailedPollKeepsState ==
  /\ [][(event'.kind = "pull" /\ event'.response.kind # "ok")
          => UNCHANGED <<currentStatus, hasHumiditySensor>>]_vars
  /\ [][event'.kind = "pull" =>
          \A d \in Devices :
             /\ d \notin DOMAIN event'.zones => currentStatus'[d] = currentStatus[d]
             /\ currentStatus[d] # NoStatus => currentStatus'[d] # NoStatus]_vars

C18_Witness ==
  /\ event.kind = "pull"
  /\ event.response.kind = "exception"
  /\ currentStatus["D1"] # NoStatus
  /\ currentStatus["D2"] # NoStatus

(***************************************************************************)
(* Authentication failure properties                                       *)
(***************************************************************************)
\* a timer is armed that will run authentication or a poll again
RetryTriggerArmed == refreshTimer # NoTimer \/ \E s \in Sites : liveTimers[s] # EmptyBag

\* C19: an authentication failure is never terminal: when discovery gives up
\* after a failed login a scheduled trigger remains that attempts it again,
\* and a poll that fails to authenticate leaves every armed poller armed.
C19_AuthFailureNotTerminal ==
  /\ [][discovery' = "aborted" => RetryTriggerArmed']_vars
  /\ [][(event'.kind = "pull" /\ event'.response.kind = "authFailed")
          => UNCHANGED <<sitePollers, liveTimers>>]_vars

\* C20: an authentication operation ends with false only when its login
\* failed; a failed refresh, or the lack of a refresh token, leads to a login
\* whose outcome is the result; a caller that was told true finds an access
\* token held.
C20_FalseOnlyIfLoginFailed ==
  /\ [][\A o \in OpIds :
          /\ (o # StartupOp /\ opPhase[o] = "none" /\ opPhase'[o] # "none") =>
                opPhase'[o] = (IF refreshToken THEN "refresh" ELSE "login")
          /\ (opPhase[o] = "refresh" /\ opPhase'[o] # "refresh") =>
                \/ opPhase'[o] = "login"
                \/ opPhase'[o] = "none" /\ opOutcome'[o] = B(TRUE) /\ accessToken'
          /\ (opPhase[o] = "login" /\ opPhase'[o] # "login") =>
                /\ opPhase'[o] = "none"
                /\ opOutcome'[o] \in {B(TRUE), B(FALSE)}
                /\ opOutcome'[o] = B(TRUE) => accessToken']_vars
  /\ [][\A c \in Callers :
          (authResult'[c] = B(FALSE) /\ pc[c] = "await" /\ pc'[c] # "await") =>
             (opPhase[joined[c]] = "login" /\ opOutcome'[joined[c]] = B(FALSE))]_vars
  /\ [](\A c \in Callers : authResult[c] = B(TRUE) => accessToken)

C20_Witness ==
  \E c \in Callers :
    /\ authResult[c] = B(FALSE)
    /\ pc[c] = "done"
    /\ opOutcome[joined[c]] = B(FALSE)
    /\ refreshToken
    /\ accessToken
    /\ now >= tokenExpiresAt - RefreshMargin

(***************************************************************************)
(* Request properties                                                      *)
(***************************************************************************)
\* a step on which caller c runs ensureAuthenticated up to its return or
\* its first await
EntersEnsure(c) == pc[c] = "idle" /\ pc'[c] # "idle"

\* C21: ensureAuthenticated performs a refresh or login before returning
\* exactly when no access token is held or the time is at or past
\* tokenExpiresAt minus 5 minutes; otherwise it returns true with no network
\* call and no change of the token state.
C21_RefreshExactlyWithinMargin ==
  [][\A c \in Callers :
       EntersEnsure(c) =>
          IF (~accessToken) \/ now >= tokenExpiresAt - 5 * 60 * 1000
            THEN /\ pc'[c] = "await"
                 /\ joined'[c] \in EnsureOps
                 /\ opPhase'[joined'[c]] \in {"refresh", "login"}
            ELSE /\ pc'[c] = "fetch"
                 /\ authResult'[c] = B(TRUE)
                 /\ UNCHANGED <<accessToken, refreshToken, tokenExpiresAt, refreshTimer,
                                refreshInProgress, opPhase>>]_vars

C21_Witness ==
  \E c \in Callers :
    /\ pc[c] = "await"
    /\ accessToken
    /\ now = tokenExpiresAt - 5 * 60 * 1000
    /\ opPhase[joined[c]] = "refresh"

\* C22: on a 401 makeAuthenticatedRequest forces one refresh, whatever the
\* expiry, and retries once only if that refresh succeeded; the retry is
\* never retried, and any other failure ends the call at once.
C22_OneForcedRefreshOneRetry ==
  [][\A c \in Callers :
       /\ (pc[c] = "fetch" /\ pc'[c] # "fetch") =>
             IF event'.kind = "response" /\ event'.status = 401
               THEN /\ pc'[c] = "unauth"
                    /\ opPhase[<<c, "unauth">>] = "none"
                    /\ opPhase'[<<c, "unauth">>] \in {"refresh", "login"}
               ELSE pc'[c] = "done" /\ UNCHANGED opPhase
       /\ (pc[c] = "unauth" /\ pc'[c] # "unauth") =>
             /\ opPhase'[<<c, "unauth">>] = "none"
             /\ pc'[c] = (IF opOutcome'[<<c, "unauth">>] = B(TRUE) THEN "retry" ELSE "done")
       /\ (pc'[c] = "retry" /\ pc[c] # "retry") => pc[c] = "unauth"
       /\ (pc[c] = "retry" /\ pc'[c] # "retry") => (pc'[c] = "done" /\ UNCHANGED opPhase)
       /\ pc[c] = "done" => pc'[c] = "done"]_vars

C22_Witness ==
  /\ event.kind = "retryResponse"
  /\ event.status = 401
  /\ \E c \in Callers :
        /\ pc[c] = "done"
        /\ opOutcome[<<c, "unauth">>] = B(TRUE)
        /\ opPhase[<<c, "unauth">>] = "none"
  /\ \A c \in Callers : pc[c] \in {"idle", "done"}

(***************************************************************************)
(* Poll loops stopped                                                      *)
(***************************************************************************)
\* a step that stops the poll loop of site s
LoopStopped(s) == sitePollers[s] # NoTimer /\ sitePollers'[s] = NoTimer

\* C23: while a site has no poll loop, from the step that stops it on, no
\* new pull for the site is started; the step that stops the loops leaves
\* the pulls in flight alone, and a pull that completes successfully while
\* the loop is stopped is still applied to the devices of its site.
C23_NoPullWhileStoppedInFlightApplied ==
  [][/\ \A s \in Sites :
          /\ sitePollers'[s] = NoTimer => PullsFor(s, inflight') <= PullsFor(s, inflight)
          /\ LoopStopped(s) => inflight' = inflight
     /\ (event'.kind = "pull" /\ event' # event /\ sitePollers[event'.pull.site] = NoTimer) =>
          \A d \in siteAccessories[event'.pull.site] \cap DOMAIN event'.zones :
             ~roomTempInvalid(event'.zones[d]) =>
                 currentStatus'[d] = zoneToStatus(event'.zones[d])]_vars

C23_Witness ==
  /\ event.kind = "pull"
  /\ accessoryHandlers = {}
  /\ sitePollers[event.pull.site] = NoTimer
  /\ \E d \in DOMAIN event.zones : currentStatus[d] = zoneToStatus(event.zones[d])

\* a step on which exitDegradedMode calls stopAllPollers
StopAllPollersRuns ==
  /\ HealthBecomesHealthy
  /\ isDegradedMode
  /\ kumoConfig.disablePolling

Disconnected(reason) == event'.kind = "disconnect" /\ event'.reason = reason

C25_EveryCallReturns ==
  \A c \in Callers :
    /\ (pc[c] # "idle") ~> (pc[c] = "done")
    /\ (pc[c] = "await") ~> (pc[c] # "await")

(***************************************************************************)
(* startSitePoller called again                                            *)
(***************************************************************************)
\* C26: startSitePoller for a site that already has a poll loop changes no
\* state: no timer is armed or replaced and no pull is issued.
C26_StartSitePollerIdempotent ==
  [][(event'.kind = "startSitePoller" /\ sitePollers[event'.site] # NoTimer)
        => UNCHANGED <<platformVars, accessoryVars>>]_vars

C26_Witness ==
  /\ event.kind = "startSitePoller"
  /\ sitePollers[event.site] # NoTimer
  /\ BagCardinality(liveTimers[event.site]) = 1
  /\ PullsFor(event.site, inflight) = 1

(***************************************************************************)
(* Excluded devices                                                        *)
(***************************************************************************)
\* C28: a device in the exclusion list has no handler (so it is not in the
\* list given to startStreaming and has no push callback), is in no site's
\* poll group, has no command in flight and never has a stored state.
C28_ExcludedDeviceIgnored ==
  \A d \in kumoConfig.excludeDevices :
    /\ d \notin accessoryHandlers
    /\ \A s \in Sites : d \notin siteAccessories[s]
    /\ currentStatus[d] = NoStatus
    /\ ~hasHumiditySensor[d]
    /\ \A c \in BagToSet(cmds) : c.device # d

C28_Witness ==
  /\ kumoConfig.excludeDevices = {"D2"}
  /\ event.kind = "pull"
  /\ "D2" \in DOMAIN event.zones
  /\ "D1" \in DOMAIN event.zones
  /\ currentStatus["D1"] # NoStatus
  /\ currentStatus["D2"] = NoStatus

(***************************************************************************)
(* Push against pull                                                       *)
(***************************************************************************)
\* null and undefined are not told apart in a stored field
nullish(v) == IF v = Undefined THEN Null ELSE v

sameStored(a, b) ==
  IF a = NoStatus \/ b = NoStatus
    THEN a = b
    ELSE [a EXCEPT !.humidity = nullish(@), !.spAuto = nullish(@)]
           = [b EXCEPT !.humidity = nullish(@), !.spAuto = nullish(@)]

\* C29: a push leaves the device's store as updateFromZone would have left
\* it for the same fields from the same prior state: the same stored status
\* and humidity flag, and the same decision to accept or reject.
C29_PushEqualsPull ==
  [][event'.kind = "push" =>
        LET d == event'.device
            pulled == processZoneUpdate(d, event'.data)
        IN  /\ sameStored(currentStatus'[d], pulled.status)
            /\ hasHumiditySensor'[d] = pulled.humidity
            /\ streamingDataInvalid(event'.data) = roomTempInvalid(event'.data)]_vars

(***************************************************************************)
(* What a pull writes                                                      *)
(***************************************************************************)
\* the stored status carries exactly the snapshot's mode, power, temperature
\* and setpoints
CarriesSnapshot(status, adapter) ==
  /\ status # NoStatus
  /\ status.operationMode = adapter.operationMode
  /\ status.power = adapter.power
  /\ status.roomTemp = adapter.roomTemp
  /\ status.spHeat = adapter.spHeat
  /\ status.spCool = adapter.spCool
  /\ status.spAuto = adapter.spAuto

\* C30: after a successful pull for a site, each device of the site's group
\* that the response lists with a valid snapshot stores exactly that
\* snapshot's fields; every other device (of another site, not listed, or
\* listed without a room temperature) keeps its stored state.
C30_PullWritesExactlyListedDevices ==
  [][(event'.kind = "pull" /\ event'.response.kind = "ok") =>
        LET site == event'.pull.site
            zones == event'.zones
        IN  \A d \in Devices :
              IF d \in siteAccessories[site] /\ d \in DOMAIN zones /\ ~roomTempInvalid(zones[d])
                THEN CarriesSnapshot(currentStatus'[d], zones[d])
                ELSE currentStatus'[d] = currentStatus[d]]_vars

C30_Witness ==
  /\ event.kind = "pull"
  /\ event.response.kind = "ok"
  /\ event.pull.site = "S1"
  /\ DOMAIN event.zones = {"D1"}
  /\ CarriesSnapshot(currentStatus["D1"], event.zones["D1"])
  /\ currentStatus["D2"] # NoStatus
  /\ currentStatus["D3"] # NoStatus

(***************************************************************************)
(* Timers and the mode flag                                                *)
(***************************************************************************)
\* the interval the mode flag calls for
IntervalOfMode == IF isDegradedMode THEN degradedPollInterval ELSE normalPollInterval

\* C34: every armed site poll timer runs at the interval of the current
\* mode flag: the degraded interval in degraded mode, the normal one
\* otherwise.
C34_TimerIntervalMatchesMode ==
  \A s \in Sites :
    /\ sitePollers[s] # NoTimer => sitePollers[s] = IntervalOfMode
    /\ \A t \in BagToSet(liveTimers[s]) : t = IntervalOfMode

C34_Witness ==
  /\ isDegradedMode
  /\ degradedPollInterval # normalPollInterval
  /\ event.kind = "pollersStarted"
  /\ \E s \in Sites : sitePollers[s] = degradedPollInterval

\* C35: no poll timer leaks: each site has at most one live interval timer,
\* and a live timer is the one recorded for its site in sitePollers.
C35_NoTimerLeak ==
  \A s \in Sites :
    /\ BagCardinality(liveTimers[s]) <= 1
    /\ IF sitePollers[s] = NoTimer
         THEN liveTimers[s] = EmptyBag
         ELSE liveTimers[s] = SetToBag({sitePollers[s]})

C35_Witness ==
  /\ event.kind = "health"
  /\ event.mode = "exited"
  /\ uniqueSites = Sites
  /\ \A s \in Sites : PollLoopRunsAt(s, normalPollInterval)

(***************************************************************************)
(* The refresh lock                                                        *)
(***************************************************************************)
\* C37: the refresh lock is held exactly while the operation started by
\* ensureAuthenticated runs: it names that operation from its start to its
\* end, and is free whenever no such operation is running.
C37_LockHeldExactlyWhileRefreshRuns ==
  /\ refreshInProgress # NoOp =>
        (refreshInProgress \in EnsureOps /\ opPhase[refreshInProgress] # "none")
  /\ \A o \in EnsureOps : opPhase[o] # "none" => refreshInProgress = o

C37_Witness ==
  /\ refreshInProgress = <<2, "ensure">>
  /\ opOutcome[<<1, "ensure">>] = B(FALSE)
  /\ opPhase[<<1, "ensure">>] = "none"

(***************************************************************************)
(* The reconnect counter                                                   *)
(***************************************************************************)
\* C39: reconnectAttempts stays within 0..5; a connect resets it to 0, a
\* disconnect not asked for locally adds exactly one while it is below 5 and
\* leaves it at 5 otherwise, and a local disconnect leaves it unchanged.
C39_ReconnectCounterBounded ==
  [][/\ reconnectAttempts \in 0 .. 5
     /\ reconnectAttempts' \in 0 .. 5
     /\ event'.kind = "connect" => reconnectAttempts' = 0
     /\ \A reason \in DisconnectReasons :
          Disconnected(reason) =>
             reconnectAttempts' =
                IF reason # "io client disconnect" /\ reconnectAttempts < 5
                  THEN reconnectAttempts + 1
                  ELSE reconnectAttempts]_vars

C39_Witness ==
  /\ reconnectAttempts = 5
  /\ event.kind = "disconnect"
  /\ event.reason = "transport close"
  /\ ~event.fired
  /\ isStreamingHealthy

(***************************************************************************)
(* The result of sendCommand                                               *)
(***************************************************************************)
\* C31: sendCommand returns true only when the request was authenticated and
\* answered with a success status and a body whose devices array holds the
\* target serial; for every other outcome it returns false.
C31_TrueOnlyForListedDevice ==
  event.kind = "commandDone" =>
     (event.success <=>
        /\ event.response.kind = "ok"
        /\ event.response.body.shape = "array"
        /\ event.device \in event.response.body.devices)

C31_Witness ==
  /\ event.kind = "commandDone"
  /\ ~event.success
  /\ event.response.kind = "ok"
  /\ event.response.body.shape = "array"
  /\ event.response.body.devices = {"D2"}
  /\ event.device = "D1"

(***************************************************************************)
(* Setpoint round trip                                                     *)
(***************************************************************************)
\* the temperature a setTargetTemperature command carries
CommandedTemp(commands) ==
  IF commands.spHeat # Undefined THEN commands.spHeat ELSE commands.spCool

\* C38: when setTargetTemperature(T) succeeds and the stored status was not
\* changed between the call and its completion, getTargetTemperature
\* returns T afterwards, whatever the operation mode and the auto setpoint.
C38_SetpointRoundTrip ==
  [][\A d \in Devices :
       (/\ CommandCompletes(d, TRUE)
        /\ event'.commands.operationMode = None
        /\ event'.issuedOn = currentStatus[d])
         => getTargetTempFromStatus(currentStatus'[d]) = CommandedTemp(event'.commands)]_vars


(***************************************************************************)
(* Configured intervals                                                    *)
(***************************************************************************)
\* C32: under every configuration the constructor accepts, a timer armed in
\* degraded mode runs at 5 to 60 seconds (10 when the option is unset) and
\* a timer armed in normal mode runs at no less than 5 seconds.
C32_IntervalsWithinBounds ==
  /\ kumoConfig.degradedPollInterval = Undefined => degradedPollInterval = 10 * 1000
  /\ \A s \in Sites : \A t \in BagToSet(liveTimers[s]) :
        IF isDegradedMode THEN t >= 5 * 1000 /\ t <= 60 * 1000
                          ELSE t >= 5 * 1000


(***************************************************************************)
(* Stored status validity                                                  *)
(***************************************************************************)
\* C33: a stored status always has a roomTemp that is neither null nor
\* undefined, whether a push, a pull or a getter's fetch stored it.
C33_StoredStatusHasRoomTemp ==
  \A d \in Devices :
    currentStatus[d] = NoStatus \/ currentStatus[d].roomTemp \notin {Null, Undefined}


(***************************************************************************)
(* Shutdown                                                                *)
(***************************************************************************)
\* C36: once cleanup has run no timer is armed, then or later: no site
\* poll timer and no token refresh timer.
C36_NoTimerAfterCleanup ==
  isShutDown =>
    /\ refreshTimer = NoTimer
    /\ \A s \in Sites : sitePollers[s] = NoTimer /\ liveTimers[s] = EmptyBag


=============================================================================
